---- MODULE Spec2Model ----
(***************************************************************************)
(* Model of the Instagram engagement MCP server (src/src/index.ts): the    *)
(* session flag isLoggedIn, loginToInstagram, the call-tool request        *)
(* handler with its switch on the tool name, and the five tool handlers.   *)
(*                                                                         *)
(* JavaScript strings are TLA+ strings, read character by character with   *)
(* SubSeq.  An optional property of an argument bag is a sequence of       *)
(* length 0 (the property is undefined) or 1 (its value).  Instants are    *)
(* whole seconds since 1970-01-01T00:00:00Z (the code counts               *)
(* milliseconds; it only ever subtracts a whole number of seconds).        *)
(***************************************************************************)
EXTENDS Integers, Sequences, FiniteSets, TLC

(***************************************************************************)
(* Bounds of the model.                                                    *)
(***************************************************************************)
NumProcs == 2
MaxAccounts == 3

Procs == 1..NumProcs

(***************************************************************************)
(* Optional values and the JavaScript coercions the handlers rely on.      *)
(***************************************************************************)
Absent == <<>>
Some(v) == <<v>>
IsPresent(o) == Len(o) > 0

\* String(v) for a string or undefined, as RegExp.prototype.test applies it
ToStr(o) == IF IsPresent(o) THEN o[1] ELSE "undefined"

\* ToBoolean of an optional string: undefined and "" are falsy
TruthyStr(o) == IsPresent(o) /\ o[1] # ""

\* ToBoolean of an optional number: undefined and 0 are falsy
TruthyNum(o) == IsPresent(o) /\ o[1] # 0

CharAt(s, i) == SubSeq(s, i, i)

Lower == {"a","b","c","d","e","f","g","h","i","j","k","l","m",
          "n","o","p","q","r","s","t","u","v","w","x","y","z"}
Upper == {"A","B","C","D","E","F","G","H","I","J","K","L","M",
          "N","O","P","Q","R","S","T","U","V","W","X","Y","Z"}
Digit == {"0","1","2","3","4","5","6","7","8","9"}

\* the character class [A-Za-z0-9._]
UsernameChars == Lower \cup Upper \cup Digit \cup {".", "_"}

\* the character class [A-Za-z0-9_-]
CodeChars == Lower \cup Upper \cup Digit \cup {"_", "-"}

StartsWithAt(s, i, pre) ==
    /\ i + Len(pre) - 1 <= Len(s)
    /\ SubSeq(s, i, i + Len(pre) - 1) = pre

\* instagram\.com\/p\/[A-Za-z0-9_-]+\/?  matched at position i; the pattern
\* has no end anchor, so whatever follows the first code character matches
MatchHostAndCode(s, i) ==
    /\ StartsWithAt(s, i, "instagram.com/p/")
    /\ i + 16 <= Len(s)
    /\ CharAt(s, i + 16) \in CodeChars

\* /^https:\/\/(www\.)?instagram\.com\/p\/[A-Za-z0-9_-]+\/?/.test(url)
isValidPostUrl(url) ==
    /\ StartsWithAt(url, 1, "https://")
    /\ \/ StartsWithAt(url, 9, "www.") /\ MatchHostAndCode(url, 13)
       \/ MatchHostAndCode(url, 9)

\* /^[A-Za-z0-9._]+$/.test(username)
isValidUsername(username) ==
    /\ Len(username) >= 1
    /\ \A i \in 1..Len(username) : CharAt(username, i) \in UsernameChars

(***************************************************************************)
(* The Date object as the handlers use it: new Date(string), new Date(),   *)
(* getTime, new Date(number) and toISOString().split("T")[0].              *)
(***************************************************************************)
SecondsPerDay == 24 * 60 * 60

\* a month of 31 days
ThirtyDays_LongMonth == 31 * 24 * 60 * 60

\* 30 * 24 * 60 * 60 * 1000 milliseconds, in seconds
ThirtyDays == 30 * 24 * 60 * 60

Digits == <<"0","1","2","3","4","5","6","7","8","9">>

DigitVal(c) == (CHOOSE k \in 1..10 : Digits[k] = c) - 1

AllDigits(s, i, j) == \A k \in i..j : CharAt(s, k) \in Digit

Num2(s, i) == 10 * DigitVal(CharAt(s, i)) + DigitVal(CharAt(s, i + 1))

Num4(s, i) == 100 * Num2(s, i) + Num2(s, i + 2)

Pad2(n) == Digits[((n \div 10) % 10) + 1] \o Digits[(n % 10) + 1]

Pad4(n) == Pad2(n \div 100) \o Pad2(n % 100)

IsLeapYear(y) == ((y % 4) = 0 /\ (y % 100) # 0) \/ (y % 400) = 0

DaysInMonth(y, m) ==
    IF m = 2 THEN (IF IsLeapYear(y) THEN 29 ELSE 28)
    ELSE IF m \in {4, 6, 9, 11} THEN 30 ELSE 31

\* day number of a civil date, counted from 1970-01-01; linear in d, so a
\* day past the end of the month lands in the following month
DaysFromCivil(y, m, d) ==
    LET yy  == IF m <= 2 THEN y - 1 ELSE y
        era == yy \div 400
        yoe == yy - era * 400
        mp  == IF m > 2 THEN m - 3 ELSE m + 9
        doy == (153 * mp + 2) \div 5 + d - 1
        doe == yoe * 365 + yoe \div 4 - yoe \div 100 + doy
    IN  era * 146097 + doe - 719468

\* civil date of a day number
CivilFromDays(z) ==
    LET zz  == z + 719468
        era == zz \div 146097
        doe == zz - era * 146097
        yoe == (doe - doe \div 1460 + doe \div 36524 - doe \div 146096) \div 365
        doy == doe - (365 * yoe + yoe \div 4 - yoe \div 100)
        mp  == (5 * doy + 2) \div 153
        d   == doy - (153 * mp + 2) \div 5 + 1
        m   == IF mp < 10 THEN mp + 3 ELSE mp - 9
        y   == yoe + era * 400
    IN  [y |-> IF m <= 2 THEN y + 1 ELSE y, m |-> m, d |-> d]

\* a Date object: a time value, or NaN (valid = FALSE)
DateOf(t) == [valid |-> TRUE, t |-> t]
InvalidDate == [valid |-> FALSE, t |-> 0]

\* the date-only form YYYY-MM-DD
IsIsoDateForm(s) ==
    /\ Len(s) = 10
    /\ AllDigits(s, 1, 4) /\ CharAt(s, 5) = "-"
    /\ AllDigits(s, 6, 7) /\ CharAt(s, 8) = "-"
    /\ AllDigits(s, 9, 10)

\* new Date(s).  A date-only string is UTC midnight of that day.  A day of
\* 29..31 that the month does not have is rolled into the next month by an
\* engine that falls back to its lenient parser (rollover = TRUE) and is NaN
\* otherwise.  Every other string of the model is one no parser reads as a
\* date.
ParseDate(s, rollover) ==
    IF ~IsIsoDateForm(s) THEN InvalidDate
    ELSE LET y == Num4(s, 1)
             m == Num2(s, 6)
             d == Num2(s, 9)
         IN  IF m \in 1..12 /\ d \in 1..DaysInMonth(y, m)
             THEN DateOf(DaysFromCivil(y, m, d) * SecondsPerDay)
             ELSE IF rollover /\ m \in 1..12 /\ d \in 1..31
             THEN DateOf(DaysFromCivil(y, m, d) * SecondsPerDay)
             ELSE InvalidDate

\* new Date(date.getTime() - ms): NaN stays NaN
MinusSeconds(date, secs) ==
    IF date.valid THEN DateOf(date.t - secs) ELSE InvalidDate

\* date.toISOString().split("T")[0] of a valid date
IsoDay(date) ==
    LET c == CivilFromDays(date.t \div SecondsPerDay)
    IN  Pad4(c.y) \o "-" \o Pad2(c.m) \o "-" \o Pad2(c.d)

(***************************************************************************)
(* What a call-tool invocation ends with.                                  *)
(***************************************************************************)
NoResult == [kind |-> "none"]

\* { content: [{ type: "text", text: JSON.stringify(payload) }] }
Success(tool, payload) ==
    [kind |-> "result", isError |-> FALSE, tool |-> tool, payload |-> payload]

\* { content: [{ type: "text", text }], isError: true }
Failure(tool, text) ==
    [kind |-> "result", isError |-> TRUE, tool |-> tool, text |-> text]

\* throw new McpError(code, message): the handler's promise rejects
McpError(code, message) ==
    [kind |-> "McpError", code |-> code, message |-> message]

\* an uncaught TypeError: the handler's promise rejects
TypeError(tool, message) ==
    [kind |-> "TypeError", tool |-> tool, message |-> message]

(***************************************************************************)
(* Argument bags: request.params.arguments with the properties the         *)
(* handlers read.                                                          *)
(***************************************************************************)
EmptyBag ==
    [postUrl |-> Absent, maxComments |-> Absent,
     accounts |-> Absent,
     accountOrPostUrl |-> Absent, sampleSize |-> Absent, criteria |-> Absent,
     account |-> Absent, startDate |-> Absent, endDate |-> Absent]

Min(a, b) == IF a <= b THEN a ELSE b

RECURSIVE Join(_, _)
\* Array.prototype.join
Join(strs, sep) ==
    IF Len(strs) = 0 THEN ""
    ELSE IF Len(strs) = 1 THEN strs[1]
    ELSE strs[1] \o sep \o Join(Tail(strs), sep)

(***************************************************************************)
(* The five tool handlers.  Each returns what the invocation ends with.    *)
(***************************************************************************)
TotalComments == 245
DefaultMaxComments == 100
DefaultSampleSize == 50

handleAnalyzePostComments(args) ==
    IF ~isValidPostUrl(ToStr(args.postUrl))
    THEN Failure("analyze_post_comments",
                 "Invalid Instagram post URL. Please provide a valid URL in the format: https://www.instagram.com/p/CODE/")
    ELSE LET maxComments == IF TruthyNum(args.maxComments)
                            THEN args.maxComments[1] ELSE DefaultMaxComments
         IN  Success("analyze_post_comments",
                     [postUrl |-> args.postUrl,
                      totalComments |-> TotalComments,
                      analyzedComments |-> Min(TotalComments, maxComments)])

\* only the first offending entry is found
InvalidAccounts_FirstOnly(accounts) ==
    LET all == SelectSeq(accounts, LAMBDA account : ~isValidUsername(account))
    IN  IF Len(all) = 0 THEN all ELSE <<all[1]>>

\* args.accounts.filter((account) => !isValidUsername(account))
InvalidAccounts(accounts) ==
    SelectSeq(accounts, LAMBDA account : ~isValidUsername(account))

\* the property key args.accounts[i] (zero-based i) of an object literal
AccountKey(accounts, i) ==
    IF i + 1 <= Len(accounts) THEN accounts[i + 1] ELSE "undefined"

\* { [args.accounts[0]]: v0, [args.accounts[1]]: v1 }: the later property
\* wins when the two keys are equal
MetricTable(accounts, v0, v1) ==
    (AccountKey(accounts, 1) :> v1) @@ (AccountKey(accounts, 0) :> v0)

handleCompareAccounts(args) ==
    IF ~IsPresent(args.accounts)
    THEN TypeError("fetch_followers",
                   "Cannot read properties of undefined (reading 'filter')")
    ELSE LET accounts == args.accounts[1]
             invalidAccounts == InvalidAccounts(accounts)
         IN  IF Len(invalidAccounts) > 0
             THEN Failure("fetch_followers",
                          "Invalid Instagram account handles: "
                              \o Join(invalidAccounts, ", "))
             ELSE Success("fetch_followers",
                     [accounts |-> accounts,
                      metrics |->
                        [followers |-> MetricTable(accounts, 15420, 8750),
                         \* engagement rates 3.2 and 4.7, in tenths
                         engagement |-> MetricTable(accounts, 32, 47),
                         posts |-> MetricTable(accounts, 342, 187),
                         comments |-> MetricTable(accounts, 28, 35),
                         likes |-> MetricTable(accounts, 420, 380)],
                      insights |->
                        <<AccountKey(accounts, 1)
                            \o " has a higher engagement rate despite fewer followers",
                          AccountKey(accounts, 0)
                            \o " posts more frequently but receives fewer comments per post">>])

handleExtractDemographics(args) ==
    Success("extract_demographics",
            [source |-> args.accountOrPostUrl,
             sampleSize |-> IF TruthyNum(args.sampleSize)
                            THEN args.sampleSize[1] ELSE DefaultSampleSize])

\* the criteria used when args.criteria is not provided
DefaultCriteria ==
    [minComments |-> Some(2), minFollowers |-> Some(1000),
     keywords |-> Some(<<"interested", "buy", "price">>)]

\* the caller's criteria are dropped
CriteriaOrDefault_Dropped(criteria) == DefaultCriteria

\* args.criteria || { ...defaults }: an object is always truthy
CriteriaOrDefault(criteria) ==
    IF IsPresent(criteria) THEN criteria[1] ELSE DefaultCriteria

handleIdentifyLeads(args) ==
    Success("identify_leads",
            [source |-> args.accountOrPostUrl,
             criteria |-> CriteriaOrDefault(args.criteria)])

\* args.endDate ? new Date(args.endDate) : new Date()
ReportEndDate(args, now, rollover) ==
    IF TruthyStr(args.endDate)
    THEN ParseDate(args.endDate[1], rollover) ELSE DateOf(now)

\* args.startDate ? new Date(args.startDate)
\*                : new Date(endDate.getTime() - 30 * 24 * 60 * 60 * 1000)
ReportStartDate(args, endDate, rollover) ==
    IF TruthyStr(args.startDate)
    THEN ParseDate(args.startDate[1], rollover)
    ELSE MinusSeconds(endDate, ThirtyDays)

handleGenerateReport(args, now, rollover) ==
    IF ~isValidUsername(ToStr(args.account))
    THEN Failure("send_dms",
                 "Invalid Instagram account handle: " \o ToStr(args.account))
    ELSE LET endDate == ReportEndDate(args, now, rollover)
             startDate == ReportStartDate(args, endDate, rollover)
         IN  \* toISOString throws a RangeError on NaN, inside the try block
             IF ~startDate.valid \/ ~endDate.valid
             THEN Failure("send_dms",
                          "Error generating engagement report: Invalid time value")
             ELSE Success("send_dms",
                          [account |-> args.account,
                           period |-> [start |-> IsoDay(startDate),
                                       end |-> IsoDay(endDate)]])

(***************************************************************************)
(* The switch on request.params.name.                                      *)
(***************************************************************************)
ToolNames ==
    <<"analyze_post_comments", "fetch_followers", "extract_demographics",
      "identify_leads", "send_dms">>

\* the descriptors the list-tools handler returns: name and required
\* arguments of each inputSchema
ToolCatalog ==
    <<[name |-> "analyze_post_comments", required |-> <<"postUrl">>],
      [name |-> "fetch_followers", required |-> <<"accounts">>],
      [name |-> "extract_demographics", required |-> <<"accountOrPostUrl">>],
      [name |-> "identify_leads", required |-> <<"accountOrPostUrl">>],
      [name |-> "send_dms", required |-> <<"account">>]>>

\* no list-tools response
NoList == <<>>

IsCatalogName(name) == \E i \in 1..Len(ToolNames) : ToolNames[i] = name

\* the handler the switch calls for a name, "none" for the default branch
HandlerFor(name) ==
    CASE name = "analyze_post_comments" -> "handleAnalyzePostComments"
      [] name = "fetch_followers"       -> "handleCompareAccounts"
      [] name = "extract_demographics"  -> "handleExtractDemographics"
      [] name = "identify_leads"        -> "handleIdentifyLeads"
      [] name = "send_dms"              -> "handleGenerateReport"
      [] OTHER                          -> "none"

\* the name the README documents is routed like fetch_followers
RunTool_ReadmeAlias(name, args, now, rollover) ==
    CASE name = "analyze_post_comments" -> handleAnalyzePostComments(args)
      [] name = "fetch_followers"       -> handleCompareAccounts(args)
      [] name = "compare_accounts"      -> handleCompareAccounts(args)
      [] name = "extract_demographics"  -> handleExtractDemographics(args)
      [] name = "identify_leads"        -> handleIdentifyLeads(args)
      [] name = "send_dms"              -> handleGenerateReport(args, now, rollover)
      [] OTHER -> McpError("MethodNotFound", "Unknown tool: " \o name)

RunTool(name, args, now, rollover) ==
    CASE name = "analyze_post_comments" -> handleAnalyzePostComments(args)
      [] name = "fetch_followers"       -> handleCompareAccounts(args)
      [] name = "extract_demographics"  -> handleExtractDemographics(args)
      [] name = "identify_leads"        -> handleIdentifyLeads(args)
      [] name = "send_dms"              -> handleGenerateReport(args, now, rollover)
      [] OTHER -> McpError("MethodNotFound", "Unknown tool: " \o name)

(***************************************************************************)
(* Inputs: the requests a client sends and the instants the clock shows.   *)
(***************************************************************************)
Opt(S) == {Absent} \cup {Some(v) : v \in S}

SeqsUpTo(S, n) == UNION {[1..k -> S] : k \in 0..n}

Handles == {"brand_x", "valid_user", "bad user!", "@bob", ""}

PostUrls == {"https://www.instagram.com/p/Cabc-1_/",
             "https://instagram.com/p/Cabc",
             "https://www.instagram.com/p/Cabc/?x=<y>",
             "http://www.instagram.com/p/Cabc/",
             "brand_x"}

DateStrings == {"2024-03-01", "2024-12-31", "2025-01-15",
                "2024-02-30", "2023-02-29", "soon"}

\* 2024-03-30T23:59:59Z, 2024-03-01T00:00:00Z, 2025-01-15T12:00:00Z
Nows == {DaysFromCivil(2024, 3, 30) * SecondsPerDay + SecondsPerDay - 1,
         DaysFromCivil(2024, 3, 1) * SecondsPerDay,
         DaysFromCivil(2025, 1, 15) * SecondsPerDay + 12 * 60 * 60}

CriteriaValues ==
    [minComments : Opt({5}), minFollowers : Opt({0, 500}),
     keywords : Opt({<<>>, <<"sale">>})]

AnalyzeBags ==
    {[EmptyBag EXCEPT !.postUrl = u, !.maxComments = n] :
        u \in Opt(PostUrls), n \in Opt({-5, 0, 10, 300})}

CompareBags ==
    {[EmptyBag EXCEPT !.accounts = a] :
        a \in Opt(SeqsUpTo(Handles, MaxAccounts))}

DemographicsBags ==
    {[EmptyBag EXCEPT !.accountOrPostUrl = s, !.sampleSize = n] :
        s \in Opt({"brand_x", "bad user!"}), n \in Opt({0, 20})}

LeadsBags ==
    {[EmptyBag EXCEPT !.accountOrPostUrl = s, !.criteria = c] :
        s \in Opt({"brand_x"}), c \in Opt(CriteriaValues)}

ReportBags ==
    {[EmptyBag EXCEPT !.account = a, !.startDate = sd, !.endDate = ed] :
        a \in Opt({"brand_x", "bad user!"}),
        sd \in Opt(DateStrings), ed \in Opt(DateStrings)}

\* names that are not in the catalog; the README documents the first two
UnknownNames == {"compare_accounts", "generate_engagement_report", ""}

SampleBags ==
    {EmptyBag,
     [EmptyBag EXCEPT !.postUrl = Some("https://www.instagram.com/p/Cabc-1_/")],
     [EmptyBag EXCEPT !.accounts = Some(<<"brand_x", "valid_user">>)],
     [EmptyBag EXCEPT !.accountOrPostUrl = Some("brand_x")],
     [EmptyBag EXCEPT !.account = Some("brand_x")]}

Request(name, arguments) == [name |-> name, arguments |-> arguments]

\* every argument bag of the model, for one invocation at a time
AllRequests ==
         {Request("analyze_post_comments", Some(b)) : b \in AnalyzeBags}
    \cup {Request("fetch_followers", Some(b)) : b \in CompareBags}
    \cup {Request("extract_demographics", Some(b)) : b \in DemographicsBags}
    \cup {Request("identify_leads", Some(b)) : b \in LeadsBags}
    \cup {Request("send_dms", Some(b)) : b \in ReportBags}
    \cup {Request(n, a) : n \in UnknownNames, a \in Opt(SampleBags)}
    \cup {Request(ToolNames[i], Absent) : i \in 1..Len(ToolNames)}

\* an argument bag with every required argument, all of them valid
FullBag ==
    [EmptyBag EXCEPT !.postUrl = Some("https://www.instagram.com/p/Cabc-1_/"),
                     !.accounts = Some(<<"brand_x", "valid_user">>),
                     !.accountOrPostUrl = Some("brand_x"),
                     !.account = Some("brand_x")]

\* for overlapping invocations: every tool name and one unknown name with
\* the full bag, and fetch_followers without arguments
SomeRequests ==
         {Request(ToolNames[i], Some(FullBag)) : i \in 1..Len(ToolNames)}
    \cup {Request("compare_accounts", Some(FullBag)),
          Request("fetch_followers", Absent)}

NoRequest == Request("", Absent)

(***************************************************************************)
(* State.                                                                  *)
(***************************************************************************)
VARIABLES
    isLoggedIn,  \* InstagramEngagementServer.isLoggedIn
    pc,          \* where each call-tool invocation stands
    req,         \* the request of each invocation
    loggedIn,    \* the local loggedIn of each invocation
    res,         \* what each invocation ended with
    ran,         \* the handler the switch called in each invocation
    attempts,    \* login handshakes begun by each invocation
    logins,      \* login handshakes that succeeded since construction
    clock,       \* the instant new Date() returns
    readAt,      \* the instant at which each invocation ran its handler
    listed       \* the list-tools response being sent, if any

vars == <<isLoggedIn, pc, req, loggedIn, res, ran, attempts, logins, clock,
          readAt, listed>>

Init ==
    /\ isLoggedIn = FALSE
    /\ pc = [p \in Procs |-> "idle"]
    /\ req = [p \in Procs |-> NoRequest]
    /\ loggedIn = [p \in Procs |-> FALSE]
    /\ res = [p \in Procs |-> NoResult]
    /\ ran = [p \in Procs |-> "none"]
    /\ attempts = [p \in Procs |-> 0]
    /\ logins = 0
    /\ clock \in Nows
    /\ readAt = [p \in Procs |-> 0]
    /\ listed = NoList

\* time passes
Tick ==
    /\ \E now \in Nows : now > clock /\ clock' = now
    /\ UNCHANGED <<isLoggedIn, pc, req, loggedIn, res, ran, attempts, logins,
                   readAt>>
    /\ UNCHANGED listed

\* the fast path is never taken
AlreadyLoggedIn_Never == FALSE

\* if (this.isLoggedIn) return true;
AlreadyLoggedIn == isLoggedIn

\* The request handler is entered and calls loginToInstagram, which returns
\* at once when the flag is set and otherwise calls generateDevice and
\* account.login and waits for the outcome.
CallTool(p, r) ==
    /\ pc[p] = "idle"
    /\ req' = [req EXCEPT ![p] = r]
    /\ IF AlreadyLoggedIn
       THEN /\ loggedIn' = [loggedIn EXCEPT ![p] = TRUE]
            /\ pc' = [pc EXCEPT ![p] = "afterLogin"]
            /\ UNCHANGED attempts
       ELSE /\ attempts' = [attempts EXCEPT ![p] = @ + 1]
            /\ pc' = [pc EXCEPT ![p] = "awaitLogin"]
            /\ UNCHANGED loggedIn
    /\ UNCHANGED <<isLoggedIn, res, ran, logins, clock, readAt>>
    /\ UNCHANGED listed

\* account.login resolves: the flag is set and loginToInstagram returns true
LoginResolve(p) ==
    /\ pc[p] = "awaitLogin"
    /\ isLoggedIn' = TRUE
    /\ logins' = logins + 1
    /\ loggedIn' = [loggedIn EXCEPT ![p] = TRUE]
    /\ pc' = [pc EXCEPT ![p] = "afterLogin"]
    /\ UNCHANGED <<req, res, ran, attempts, clock, readAt>>
    /\ UNCHANGED listed

\* the flag is set before the outcome of account.login is known
LoginReject_FlagSet(p) ==
    /\ pc[p] = "awaitLogin"
    /\ isLoggedIn' = TRUE
    /\ loggedIn' = [loggedIn EXCEPT ![p] = FALSE]
    /\ pc' = [pc EXCEPT ![p] = "afterLogin"]
    /\ UNCHANGED <<req, res, ran, attempts, logins, clock, readAt>>
    /\ UNCHANGED listed

\* account.login rejects: the catch block returns false
LoginReject(p) ==
    /\ pc[p] = "awaitLogin"
    /\ loggedIn' = [loggedIn EXCEPT ![p] = FALSE]
    /\ pc' = [pc EXCEPT ![p] = "afterLogin"]
    /\ UNCHANGED <<isLoggedIn, req, res, ran, attempts, logins, clock,
                   readAt>>
    /\ UNCHANGED listed

\* the outcome of loginToInstagram is not looked at
AuthFailed_Never(p) == FALSE

\* if (!loggedIn) throw new McpError(ErrorCode.InternalError, ...)
AuthFailed(p) == ~loggedIn[p]

\* request.params.arguments || {}
ArgsOf(r) == IF IsPresent(r.arguments) THEN r.arguments[1] ELSE EmptyBag

\* The rest of the request handler after the await: the authentication
\* check, the switch and the whole handler it calls.
Dispatch(p) ==
    /\ pc[p] = "afterLogin"
    /\ IF AuthFailed(p)
       THEN /\ res' = [res EXCEPT ![p] =
                   McpError("InternalError",
                            "Failed to authenticate with Instagram API")]
            /\ UNCHANGED <<ran, readAt>>
       ELSE \E rollover \in BOOLEAN :
            /\ res' = [res EXCEPT ![p] =
                   RunTool(req[p].name, ArgsOf(req[p]), clock, rollover)]
            /\ ran' = [ran EXCEPT ![p] = HandlerFor(req[p].name)]
            /\ readAt' = [readAt EXCEPT ![p] = clock]
    /\ pc' = [pc EXCEPT ![p] = "done"]
    /\ UNCHANGED <<isLoggedIn, req, loggedIn, attempts, logins, clock>>
    /\ UNCHANGED listed

\* The response (the result, or the error of a rejected handler) is sent;
\* the invocation is over.
Respond(p) ==
    /\ pc[p] = "done"
    /\ pc' = [pc EXCEPT ![p] = "idle"]
    /\ req' = [req EXCEPT ![p] = NoRequest]
    /\ loggedIn' = [loggedIn EXCEPT ![p] = FALSE]
    /\ res' = [res EXCEPT ![p] = NoResult]
    /\ ran' = [ran EXCEPT ![p] = "none"]
    /\ attempts' = [attempts EXCEPT ![p] = 0]
    /\ readAt' = [readAt EXCEPT ![p] = 0]
    /\ UNCHANGED <<isLoggedIn, logins, clock>>
    /\ UNCHANGED listed

\* the list-tools handler also logs in
ListTools_LogsIn ==
    /\ listed = NoList
    /\ listed' = ToolCatalog
    /\ isLoggedIn' = TRUE
    /\ UNCHANGED <<pc, req, loggedIn, res, ran, attempts, logins, clock,
                   readAt>>

\* The list-tools handler returns the literal list of descriptors.
ListTools ==
    /\ listed = NoList
    /\ listed' = ToolCatalog
    /\ UNCHANGED <<isLoggedIn, pc, req, loggedIn, res, ran, attempts, logins,
                   clock, readAt>>

\* the list-tools response is sent
ListRespond ==
    /\ listed # NoList
    /\ listed' = NoList
    /\ UNCHANGED <<isLoggedIn, pc, req, loggedIn, res, ran, attempts, logins,
                   clock, readAt>>

NoneInFlight == \A q \in Procs : pc[q] = "idle"

\* Requests may overlap: the next one is taken up while earlier ones wait
\* for their login.
Next ==
    \E p \in Procs :
        \/ \E r \in SomeRequests : CallTool(p, r)
        \/ LoginResolve(p)
        \/ LoginReject(p)
        \/ Dispatch(p)
        \/ Respond(p)
        \/ Tick

Spec == Init /\ [][Next]_vars

\* One request at a time: the client awaits each response before it sends
\* the next request.
NextSeq ==
    \E p \in Procs :
        \/ \E r \in AllRequests : NoneInFlight /\ CallTool(p, r)
        \/ LoginResolve(p)
        \/ LoginReject(p)
        \/ Dispatch(p)
        \/ Respond(p)
        \/ Tick

SpecSeq == Init /\ [][NextSeq]_vars

\* the call-tool requests sent around list-tools requests: a tool of the
\* catalog and an unknown name
FewRequests ==
    {Request("send_dms", Some(FullBag)),
     Request("compare_accounts", Some(FullBag))}

\* Overlapping call-tool invocations with list-tools requests at any point
\* in between.
NextAll ==
    \/ \E p \in Procs :
        \/ \E r \in FewRequests : CallTool(p, r)
        \/ LoginResolve(p)
        \/ LoginReject(p)
        \/ Dispatch(p)
        \/ Respond(p)
    \/ Tick
    \/ ListTools
    \/ ListRespond

SpecAll == Init /\ [][NextAll]_vars

TypeOK ==
    /\ isLoggedIn \in BOOLEAN
    /\ pc \in [Procs -> {"idle", "awaitLogin", "afterLogin", "done"}]
    /\ logins \in 0..NumProcs

(***************************************************************************)
(* Session: login at most once, retry after a failure, no handler without  *)
(* a session.                                                              *)
(***************************************************************************)
Begins(p) == pc[p] = "idle" /\ pc'[p] # "idle"

AuthError == McpError("InternalError", "Failed to authenticate with Instagram API")

\* C1: with one invocation at a time, once a login handshake has succeeded
\* the flag stays set, an invocation that finds it set gets success from
\* loginToInstagram without beginning a handshake, and at most one handshake
\* ever succeeds.
C1_LoginAtMostOnce ==
    [][/\ isLoggedIn => isLoggedIn'
       /\ isLoggedIn => \A p \in Procs : attempts'[p] <= attempts[p]
       /\ \A p \in Procs :
            isLoggedIn /\ Begins(p) => pc'[p] = "afterLogin" /\ loggedIn'[p]
       /\ logins' <= 1]_vars

\* an invocation that began after the login went through the fast path
C1_Witness ==
    \E p \in Procs :
        /\ isLoggedIn /\ logins = 1
        /\ pc[p] = "done" /\ attempts[p] = 0 /\ loggedIn[p]
        /\ res[p].kind = "result"

\* C2: a handshake that fails makes loginToInstagram return false and does
\* not set the flag; the invocation ends with the authentication error
\* after that single attempt, and an invocation that begins while the flag
\* is false begins a handshake of its own.
C2_FailedLoginRetriedByNextCall ==
    [][\A p \in Procs :
        /\ (pc[p] = "awaitLogin" /\ pc'[p] = "afterLogin" /\ ~loggedIn'[p])
              => (isLoggedIn' = isLoggedIn /\ attempts'[p] = 1)
        /\ (pc[p] = "afterLogin" /\ ~loggedIn[p] /\ pc'[p] # pc[p])
              => (pc'[p] = "done" /\ attempts'[p] = 1 /\ res'[p] = AuthError)
        /\ (~isLoggedIn /\ Begins(p))
              => (pc'[p] = "awaitLogin" /\ attempts'[p] = 1)
        /\ attempts'[p] <= 1]_vars

\* an invocation ended on a failed handshake and the flag is still false
C2_Witness ==
    \E p \in Procs :
        /\ pc[p] = "done" /\ ~loggedIn[p] /\ attempts[p] = 1
        /\ res[p] = AuthError
        /\ ~isLoggedIn

\* C3: a handler runs only in an invocation whose loginToInstagram returned
\* true, hence with the flag set; an invocation whose authentication failed
\* ends with the authentication error and no handler was called.
C3_NoHandlerWithoutSession ==
    \A p \in Procs :
        /\ ran[p] # "none" => isLoggedIn /\ loggedIn[p]
        /\ (pc[p] = "done" /\ ~loggedIn[p])
              => (ran[p] = "none" /\ res[p] = AuthError)

\* one invocation ended on a failed handshake while another ran its handler
C3_Witness ==
    \E p, q \in Procs :
        /\ pc[p] = "done" /\ ~loggedIn[p] /\ ran[p] = "none"
        /\ pc[q] = "done" /\ ran[q] # "none"

(***************************************************************************)
(* Dispatch: how an invocation ends.                                       *)
(***************************************************************************)
Ended(p) == pc[p] = "done"

\* C4: every invocation that names a tool of the catalog ends by returning
\* a result (success, or failure as content with the error flag) and never
\* by an exception, whatever the arguments and the outcome of the handshake.
C4_CatalogCallsReturnResults ==
    \A p \in Procs :
        Ended(p) /\ IsCatalogName(req[p].name) => res[p].kind = "result"

UnknownToolError(name) == McpError("MethodNotFound", "Unknown tool: " \o name)

C6_SingleHandshakeInFlight ==
    Cardinality({p \in Procs : pc[p] = "awaitLogin"}) <= 1

(***************************************************************************)
(* Handlers: validation, defaults and what is echoed.                      *)
(***************************************************************************)
\* an authenticated invocation of a tool has ended
Ran(p, name) == Ended(p) /\ loggedIn[p] /\ req[p].name = name

IsSuccess(r) == r.kind = "result" /\ ~r.isError
IsFailure(r) == r.kind = "result" /\ r.isError

RECURSIVE ListOfInvalid(_)
\* the entries that fail isValidUsername, front to back, separated by ", "
ListOfInvalid(accounts) ==
    IF Len(accounts) = 0 THEN ""
    ELSE LET rest == Tail(accounts)
             more == \E i \in 1..Len(rest) : ~isValidUsername(rest[i])
         IN  IF isValidUsername(Head(accounts)) THEN ListOfInvalid(rest)
             ELSE IF more THEN Head(accounts) \o ", " \o ListOfInvalid(rest)
             ELSE Head(accounts)

\* C7: fetch_followers with an accounts list that has an entry failing
\* isValidUsername returns one failure whose message lists exactly the
\* failing entries in input order, and builds no comparison; it returns
\* success only when every entry passes.
C7_InvalidAccountsListed ==
    \A p \in Procs :
        Ran(p, "fetch_followers") /\ IsPresent(ArgsOf(req[p]).accounts) =>
            LET accounts == ArgsOf(req[p]).accounts[1]
                someInvalid == \E i \in 1..Len(accounts) :
                                   ~isValidUsername(accounts[i])
            IN  /\ someInvalid =>
                     /\ IsFailure(res[p])
                     /\ res[p].text = "Invalid Instagram account handles: "
                                          \o ListOfInvalid(accounts)
                /\ IsSuccess(res[p]) =>
                     \A i \in 1..Len(accounts) : isValidUsername(accounts[i])
                /\ ~someInvalid => IsSuccess(res[p])

\* a list with a valid entry and two invalid ones was refused
C7_Witness ==
    \E p \in Procs :
        /\ Ran(p, "fetch_followers")
        /\ ArgsOf(req[p]).accounts = Some(<<"bad user!", "valid_user", "@bob">>)
        /\ IsFailure(res[p])

\* the required argument of a tool
RequiredArg(name, args) ==
    CASE name = "analyze_post_comments" -> args.postUrl
      [] name = "fetch_followers"       -> args.accounts
      [] name = "extract_demographics"  -> args.accountOrPostUrl
      [] name = "identify_leads"        -> args.accountOrPostUrl
      [] name = "send_dms"              -> args.account

\* C8: for each of the five tools, an authenticated invocation whose
\* arguments omit the required argument returns a failure: it neither
\* raises an exception nor returns success.
C8_MissingRequiredArgFails ==
    \A p \in Procs :
        (/\ Ended(p) /\ loggedIn[p] /\ IsCatalogName(req[p].name)
         /\ ~IsPresent(RequiredArg(req[p].name, ArgsOf(req[p]))))
            => IsFailure(res[p])

\* the calendar date a string YYYY-MM-DD names, if it names one
IsCalendarDate(s) ==
    /\ IsIsoDateForm(s)
    /\ Num2(s, 6) \in 1..12
    /\ Num2(s, 9) \in 1..DaysInMonth(Num4(s, 1), Num2(s, 6))

Ymd(s) == [y |-> Num4(s, 1), m |-> Num2(s, 6), d |-> Num2(s, 9)]

NextDay(c) ==
    IF c.d < DaysInMonth(c.y, c.m) THEN [c EXCEPT !.d = c.d + 1]
    ELSE IF c.m < 12 THEN [c EXCEPT !.m = c.m + 1, !.d = 1]
    ELSE [y |-> c.y + 1, m |-> 1, d |-> 1]

RECURSIVE PlusDays(_, _)
\* the calendar date n days after c, one day at a time
PlusDays(c, n) == IF n = 0 THEN c ELSE PlusDays(NextDay(c), n - 1)

\* the day numbers of 2024-01-01 and 2025-01-01, counted from 1970-01-01:
\* 54 years with 13 leap days, and the leap year 2024
DayOfNewYear2024 == 54 * 365 + 13
DayOfNewYear2025 == DayOfNewYear2024 + 366

RECURSIVE DayOfYear(_, _, _)
\* the date k days after the first of month m of year y, in that year
DayOfYear(y, m, k) ==
    IF k < DaysInMonth(y, m) THEN [y |-> y, m |-> m, d |-> k + 1]
    ELSE DayOfYear(y, m + 1, k - DaysInMonth(y, m))

\* the UTC calendar day of an instant of 2024 or 2025
Today(now) ==
    LET z == now \div SecondsPerDay
    IN  IF z >= DayOfNewYear2025
        THEN DayOfYear(2025, 1, z - DayOfNewYear2025)
        ELSE DayOfYear(2024, 1, z - DayOfNewYear2024)

DateOk(o) == IsPresent(o) => IsCalendarDate(o[1])

CriteriaFields == {"minComments", "minFollowers", "keywords"}

\* C10 as stated: identify_leads echoes criteria in which every field the
\* caller did not supply has its default and every supplied field has the
\* caller's value.
C10_CriteriaPerFieldDefaults ==
    \A p \in Procs :
        Ran(p, "identify_leads") =>
            /\ IsSuccess(res[p])
            /\ LET supplied == ArgsOf(req[p]).criteria
                   echoed == res[p].payload.criteria
               IN  \A f \in CriteriaFields :
                       echoed[f] = IF IsPresent(supplied) /\ IsPresent(supplied[1][f])
                                   THEN supplied[1][f]
                                   ELSE DefaultCriteria[f]

\* C10: identify_leads with no criteria echoes exactly the defaults
\* (minComments 2, minFollowers 1000, keywords interested, buy, price);
\* with a criteria object it echoes that object as supplied, and a field
\* the caller left out stays out and gets no default.
C10_CriteriaWholeObjectDefault ==
    \A p \in Procs :
        Ran(p, "identify_leads") =>
            /\ IsSuccess(res[p])
            /\ LET supplied == ArgsOf(req[p]).criteria
                   echoed == res[p].payload.criteria
               IN  /\ ~IsPresent(supplied) =>
                        /\ echoed.minComments = Some(2)
                        /\ echoed.minFollowers = Some(1000)
                        /\ echoed.keywords = Some(<<"interested", "buy", "price">>)
                   /\ IsPresent(supplied) => echoed = supplied[1]

\* criteria with only minComments were echoed without the other two fields
C10_Witness ==
    \E p \in Procs :
        /\ Ran(p, "identify_leads")
        /\ IsPresent(ArgsOf(req[p]).criteria)
        /\ ArgsOf(req[p]).criteria[1].minComments = Some(5)
        /\ ~IsPresent(ArgsOf(req[p]).criteria[1].minFollowers)
        /\ ~IsPresent(res[p].payload.criteria.minFollowers)

IsCode(s) ==
    /\ Len(s) >= 1
    /\ \A i \in 1..Len(s) : CharAt(s, i) \in CodeChars

\* the whole of url is https://[www.]instagram.com/p/<code>[/]
IsWholePostUrl(url) ==
    \E pre \in {"https://instagram.com/p/", "https://www.instagram.com/p/"} :
        /\ Len(url) > Len(pre)
        /\ SubSeq(url, 1, Len(pre)) = pre
        /\ LET rest == SubSeq(url, Len(pre) + 1, Len(url))
           IN  \/ IsCode(rest)
               \/ /\ CharAt(rest, Len(rest)) = "/"
                  /\ IsCode(SubSeq(rest, 1, Len(rest) - 1))

\* C12: isValidPostUrl(url) is true if and only if the whole url has the
\* form https://[www.]instagram.com/p/<code>[/]; a url with other
\* characters after the code or after the trailing slash is rejected, and
\* analyze_post_comments returns a failure for it.
C12_PostUrlWholeMatch ==
    \A p \in Procs :
        (Ran(p, "analyze_post_comments") /\ IsPresent(ArgsOf(req[p]).postUrl)) =>
            LET url == ArgsOf(req[p]).postUrl[1]
            IN  /\ isValidPostUrl(url) <=> IsWholePostUrl(url)
                /\ IsWholePostUrl(url) => IsSuccess(res[p])
                /\ ~IsWholePostUrl(url) => IsFailure(res[p])

MetricNames == {"followers", "engagement", "posts", "comments", "likes"}

\* C13: on fetch_followers success with a non-empty list of valid handles
\* (one, two, more, or repeated), the table of every metric has an entry
\* for each handle of the list and for no other key.
C13_MetricTablePerAccount ==
    \A p \in Procs :
        (/\ Ran(p, "fetch_followers") /\ IsSuccess(res[p])
         /\ Len(res[p].payload.accounts) >= 1) =>
            LET accounts == res[p].payload.accounts
            IN  \A metric \in MetricNames :
                    DOMAIN res[p].payload.metrics[metric]
                        = {accounts[i] : i \in 1..Len(accounts)}

\* C14: on analyze_post_comments success analyzedComments is between 0 and
\* totalComments (245) and never exceeds a supplied maxComments, also for 0
\* and for negative values; without maxComments it is 100.
C14_AnalyzedWithinLimit ==
    \A p \in Procs :
        (Ran(p, "analyze_post_comments") /\ IsSuccess(res[p])) =>
            LET analyzed == res[p].payload.analyzedComments
                maxComments == ArgsOf(req[p]).maxComments
            IN  /\ res[p].payload.totalComments = 245
                /\ analyzed \in 0..245
                /\ IsPresent(maxComments) => analyzed <= maxComments[1]
                /\ ~IsPresent(maxComments) => analyzed = 100

====
